---- MODULE Spec2Model ----
(***************************************************************************)
(* The sandboxed code-execution engine of pm-agent: CodeExecutor.execute   *)
(* of services/codeExecutorSimple.ts (Node's vm module, "vm") and of       *)
(* services/codeExecutor.ts (isolated-vm, "ivm"), run on one submitted     *)
(* program against the stories / meetings / risks / story_updates store.   *)
(*                                                                         *)
(* The submitted program is untrusted text, so it is the environment: each *)
(* Prog* action is one statement the program may execute next.  The host   *)
(* side (compile, run, wait, translate the result) and the host halves of  *)
(* the capability calls are translated from the source.                    *)
(*                                                                         *)
(* Strings the code computes with (log lines, output) are sequences of     *)
(* one-character strings; error messages are sequences of tokens.          *)
(*                                                                         *)
(* Platform semantics the model relies on:                                 *)
(*  - vm: an object created by sandbox code belongs to the context's own   *)
(*    realm, so `x instanceof Error` evaluated by the host is false for an *)
(*    Error the program constructed; functions and objects the host put on *)
(*    the sandbox object belong to the host realm.                         *)
(*  - vm: the `timeout` option of runInContext covers the synchronous run  *)
(*    only; continuations after an await run on the host's event loop.     *)
(*  - ivm: a binding installed with jail.set(...Reference) is taken to     *)
(*    invoke its host function when the wrapper code calls it, which is    *)
(*    what the wrapper code of codeExecutor.ts is written to do.           *)
(***************************************************************************)
EXTENDS Integers, Sequences, FiniteSets, TLC

\* ---------------------------------------------------------------- bounds
\* statements one program executes (log, call, await, assign, ...)
MaxSteps == 3
\* capability calls one program issues
MaxCalls == 2
\* console.log calls one program makes
MaxLogs == 2
\* single iterations of the wait loop taken one at a time
MaxPolls == 1
\* milliseconds of synchronous computation one busy statement takes
BusyTime == 20000
\* the "small fixed grace window" allowed on top of the overall budget (ms)
Grace == 1000

\* ------------------------------------------------------ program constants
\* codeExecutor.ts: const maxWait = 35000
maxWait == 35000
\* codeExecutor.ts: const checkInterval = 100
checkInterval == 100
\* both executors: { timeout: 30000 }
scriptTimeout == 30000

\* ---------------------------------------------------------------- strings
NL == "\n"
SP == " "

RECURSIVE Join(_, _)
\* Array.prototype.join on an array of strings
Join(ss, sep) ==
  IF ss = <<>> THEN <<>>
  ELSE IF Len(ss) = 1 THEN ss[1]
  ELSE ss[1] \o sep \o Join(Tail(ss), sep)

IsSpace(c) == c \in {SP, NL}

RECURSIVE TrimStart(_)
TrimStart(s) ==
  IF s # <<>> /\ IsSpace(Head(s)) THEN TrimStart(Tail(s)) ELSE s

RECURSIVE TrimEnd(_)
TrimEnd(s) ==
  IF s # <<>> /\ IsSpace(s[Len(s)]) THEN TrimEnd(SubSeq(s, 1, Len(s) - 1)) ELSE s

\* String.prototype.trim
Trim(s) == TrimEnd(TrimStart(s))

\* the argument lists a program passes to console.log (strings only)
LogArgs == { <<>>, << <<"a">> >>, << <<SP>> >>, << <<"a">>, <<"b">> >> }

\* what console.log(...args) logs: the arguments separated by one space
LineOf(args) == Join(args, <<SP>>)

\* ------------------------------------------------------------------ store
Projects == {"P1", "P2"}
MeetingIds == {"M1", "M2"}
\* ORDER BY story_key
KeyRank == [K1 |-> 1, K2 |-> 2, K3 |-> 3, K9 |-> 9]

Absent == "<absent>"

InitStories ==
  [ S1 |-> [id |-> "S1", project_id |-> "P1", story_key |-> "K1", title |-> "t1",
            status |-> "in_progress", assigned_to |-> Absent, notes |-> Absent,
            updated_at |-> 0],
    S2 |-> [id |-> "S2", project_id |-> "P1", story_key |-> "K2", title |-> "t2",
            status |-> "done", assigned_to |-> Absent, notes |-> Absent,
            updated_at |-> 0],
    S3 |-> [id |-> "S3", project_id |-> "P2", story_key |-> "K3", title |-> "t3",
            status |-> "draft", assigned_to |-> Absent, notes |-> Absent,
            updated_at |-> 0] ]

Meetings ==
  [ M1 |-> [id |-> "M1", project_id |-> "P1", title |-> "standup"],
    M2 |-> [id |-> "M2", project_id |-> "P2", title |-> "review"] ]

\* ------------------------------------------------ values crossing to the program
Undefined == [kind |-> "undefined"]
Null == [kind |-> "null"]
RowVal(r) == [kind |-> "row", row |-> r]
RowsVal(rs) == [kind |-> "rows", rows |-> rs]

\* JavaScript truthiness of an optional string field
Truthy(v) == v # Absent /\ v # ""

RECURSIVE SortByKey(_)
\* ORDER BY story_key (story_key is UNIQUE)
SortByKey(S) ==
  IF S = {} THEN <<>>
  ELSE LET m == CHOOSE r \in S : \A q \in S : KeyRank[r.story_key] <= KeyRank[q.story_key]
       IN <<m>> \o SortByKey(S \ {m})

\* the outcome of one host-side operation: the promise's settlement and the store after it
Fulfil(v, st, rk, su) ==
  [ok |-> TRUE, val |-> v, stories |-> st, risks |-> rk, storyUpdates |-> su]
Reject(msg, st, rk, su) ==
  [ok |-> FALSE, err |-> msg, stories |-> st, risks |-> rk, storyUpdates |-> su]

\* a find without the status filter
stories_find_NoFilter(st, projectId) ==
  SortByKey({st[i] : i \in {j \in DOMAIN st : st[j].project_id = projectId}})

\* SELECT * FROM stories WHERE project_id = $1 AND status != 'done' ORDER BY story_key
stories_find(st, projectId) ==
  SortByKey({st[i] : i \in {j \in DOMAIN st : st[j].project_id = projectId /\ st[j].status # "done"}})

\* SELECT * FROM stories WHERE project_id = $1 ORDER BY story_key
stories_findAll(st, projectId) ==
  SortByKey({st[i] : i \in {j \in DOMAIN st : st[j].project_id = projectId}})

\* SELECT * FROM stories WHERE story_key = $1 AND project_id = $2; rows[0] || null
stories_findByKey(st, storyKey, projectId) ==
  LET hit == {i \in DOMAIN st : st[i].story_key = storyKey /\ st[i].project_id = projectId}
  IN IF hit = {} THEN Null ELSE RowVal(st[CHOOSE i \in hit : TRUE])

\* UPDATE stories SET <allow-listed fields given and truthy>, updated_at = NOW()
\* WHERE id = $n RETURNING *   (vm executor: status, assigned_to, notes)
UpdatedStory(row, changes) ==
  [row EXCEPT !.status = IF Truthy(changes.status) THEN changes.status ELSE @,
              !.assigned_to = IF Truthy(changes.assigned_to) THEN changes.assigned_to ELSE @,
              !.notes = IF Truthy(changes.notes) THEN changes.notes ELSE @,
              !.updated_at = 1]

stories_update(st, rk, su, storyId, changes) ==
  IF storyId \in DOMAIN st
  THEN LET st2 == [st EXCEPT ![storyId] = UpdatedStory(st[storyId], changes)]
       IN Fulfil(RowVal(st2[storyId]), st2, rk, su)
  ELSE Fulfil(Undefined, st, rk, su)

\* isolated-vm executor: status, assignee, notes; the stories table has no
\* assignee column (migrations 001, 002), so that statement is refused
UpdatedStoryIvm(row, changes) ==
  [row EXCEPT !.status = IF Truthy(changes.status) THEN changes.status ELSE @,
              !.notes = IF Truthy(changes.notes) THEN changes.notes ELSE @,
              !.updated_at = 1]

stories_update_ivm(st, rk, su, storyId, changes) ==
  IF Truthy(changes.assignee)
  THEN Reject(<<"column assignee does not exist">>, st, rk, su)
  ELSE IF storyId \in DOMAIN st
  THEN LET st2 == [st EXCEPT ![storyId] = UpdatedStoryIvm(st[storyId], changes)]
       IN Fulfil(RowVal(st2[storyId]), st2, rk, su)
  ELSE Fulfil(Undefined, st, rk, su)

\* SELECT * FROM meetings WHERE id = $1; rows[0]
meetings_get(meetingId) ==
  IF meetingId \in DOMAIN Meetings THEN RowVal(Meetings[meetingId]) ELSE Undefined

\* a || b on optional strings
OrElse(v, d) == IF Truthy(v) THEN v ELSE d

\* a create that files the risk under the project named in the data
risks_create_FromData(st, rk, su, ctx, data) ==
  IF data.title = Absent \/ data.description = Absent
  THEN Reject(<<"null value violates not-null constraint">>, st, rk, su)
  ELSE LET row == [project_id |-> IF data.project_id # Absent THEN data.project_id
                                  ELSE ctx.projectId,
                   title |-> data.title, description |-> data.description,
                   risk_type |-> IF Truthy(data.riskType) THEN data.riskType ELSE "blocker",
                   severity |-> IF Truthy(data.severity) THEN data.severity ELSE "high",
                   status |-> "open"]
       IN Fulfil(RowVal(row), st, Append(rk, row), su)

\* INSERT INTO risks (project_id, title, description, risk_type, severity, status, ...)
\* title and description are NOT NULL
risks_create(st, rk, su, ctx, data) ==
  IF data.title = Absent \/ data.description = Absent
  THEN Reject(<<"null value violates not-null constraint">>, st, rk, su)
  ELSE LET row == [project_id |-> ctx.projectId, title |-> data.title,
                   description |-> data.description,
                   risk_type |-> OrElse(data.riskType, "blocker"),
                   severity |-> OrElse(data.severity, "high"),
                   status |-> "open"]
       IN Fulfil(RowVal(row), st, Append(rk, row), su)

\* isolated-vm executor: INSERT INTO risks (..., probability, impact, status ...);
\* the risks table (migration 008) has no probability or impact column
risks_create_ivm(st, rk, su, ctx, data) ==
  Reject(<<"column probability does not exist">>, st, rk, su)

\* INSERT INTO story_updates (story_id, field_changed, old_value, new_value,
\* source, source_reference, update_notes); story_id REFERENCES stories(id)
storyUpdates_create(st, rk, su, ctx, data) ==
  IF data.storyId # Absent /\ data.storyId \notin DOMAIN st
  THEN Reject(<<"violates foreign key constraint">>, st, rk, su)
  ELSE LET row == [story_id |-> data.storyId, field_changed |-> data.fieldChanged,
                   old_value |-> data.oldValue, new_value |-> data.newValue,
                   source |-> "meeting",
                   source_reference |-> OrElse(ctx.meetingId, Absent),
                   update_notes |-> OrElse(data.notes, Absent)]
       IN Fulfil(RowVal(row), st, rk, Append(su, row))

\* isolated-vm executor: INSERT INTO story_updates (story_id, meeting_id, ...);
\* the story_updates table has no meeting_id column
storyUpdates_create_ivm(st, rk, su, ctx, data) ==
  Reject(<<"column meeting_id does not exist">>, st, rk, su)

\* --------------------------------------------------------------- the state
VARIABLES
  executor,            \* "vm" (codeExecutorSimple.ts) or "ivm" (codeExecutor.ts)
  codeValid,           \* whether the wrapped program text compiles
  context,             \* the ExecutionContext the caller passed
  pc,                  \* execute: "Compiling", "Running", "Waiting", "Returned"
  prog,                \* the program body: "idle", "running", "awaiting", "finished",
                       \* "threw", "spinning", "dead"
  awaitOn,             \* the call the body is suspended on (0: none)
  output,              \* vm: string[] output; ivm: the string output
  logged,              \* the lines console.log was called with, in execution order
  thrown,              \* the value the body threw
  projectId,           \* the scope's global projectId
  executionCompleted,  \* ivm completion flag
  executionError,      \* ivm error flag (<<>>: null)
  waited,              \* ivm wait loop counter
  polls,               \* partial advances of the wait loop taken
  elapsed,             \* Date.now() - startTime
  calls,               \* the capability calls issued, by call number
  stories,             \* table stories
  risks,               \* table risks (rows inserted)
  storyUpdates,        \* table story_updates (rows inserted)
  result,              \* what execute returned
  observed,            \* projects whose rows a capability delivered to the program
  escaped,             \* host primitives the program got hold of
  received,            \* the settlement the program's last await produced
  live,                \* the program holds a live reference to an object of the host
  steps,               \* statements executed
  \* two invocations on the shared executor
  scopeOf,             \* invocation -> the execution scope (context) it runs in
  globals,             \* scope -> who assigned the global `g` ({}: it is undefined)
  buffers,             \* invocation -> its output lines
  ppc,                 \* invocation -> "idle", "running", "returned", "failed",
                       \* "refused" (failed before its program ran)
  reads,               \* invocation -> the values its reads of `g` yielded
  returned,            \* invocation -> the output of its ExecutionResult
  isolate,             \* ivm: the executor's isolate, "alive" or "disposed"
  \* the HTTP route POST /api/code/execute
  body,                \* req.body
  rpc,                 \* "received", "executing", "executed", "responded"
  invoked,             \* times executor.execute was called
  execResult,          \* what execute resolved with
  response,            \* status code and body sent
  \* processMeetingWithCode(meetingId)
  meetingId,           \* the argument
  meetings,            \* table meetings: id -> row
  before,              \* table meetings as it was when the function was called
  mpc,                 \* "idle", "called", "fetched", "generated", "executed",
                       \* "marked", "caught", "returned"
  mcode,               \* const code (a string or null)
  mexec,               \* const executionResult
  merr,                \* the message of the error the try block threw
  mret                 \* the ProcessingResult returned

\* one invocation of execute
engine == <<executor, codeValid, context, pc, prog, awaitOn, output, logged, thrown,
            projectId, executionCompleted, executionError, waited, polls, elapsed,
            calls, stories, risks, storyUpdates, result, observed, escaped, received,
            live, steps>>
\* a pair of invocations on the shared executor
pair == <<scopeOf, globals, buffers, ppc, reads, returned, isolate>>
\* the route
route == <<body, rpc, invoked, execResult, response>>

\* the meeting processor
meeting == <<meetingId, meetings, before, mpc, mcode, mexec, merr, mret>>
vars == <<engine, pair, route, meeting>>

NoData ==
  [status |-> Absent, assigned_to |-> Absent, assignee |-> Absent, notes |-> Absent,
   title |-> Absent, description |-> Absent, riskType |-> Absent, severity |-> Absent,
   project_id |-> Absent, storyId |-> Absent, fieldChanged |-> Absent,
   oldValue |-> Absent, newValue |-> Absent, meetingId |-> Absent]

Pending == [ok |-> FALSE, val |-> Undefined, err |-> <<>>]
\* a call record whose arguments have been used and whose result has been handed over
Spent ==
  [op |-> Absent, p |-> Absent, key |-> Absent, id |-> Absent, data |-> NoData,
   st |-> "consumed", res |-> Pending, taken |-> TRUE]
NoResult == [none |-> TRUE]
NoThrow == [kind |-> "none", realm |-> "none", msg |-> <<>>]

\* values a program can throw
ErrorVal(realm, msg) == [kind |-> "Error", realm |-> realm, msg |-> msg]
Throwables ==
  { ErrorVal("sandbox", <<"boom">>),
    [kind |-> "string", realm |-> "sandbox", msg |-> <<"boom">>],
    [kind |-> "null", realm |-> "sandbox", msg |-> <<>>] }

\* the contexts the caller passes: with and without a meeting
Contexts == { [projectId |-> "P1", meetingId |-> "M1"],
              [projectId |-> "P2", meetingId |-> Absent] }

Invocations == {1, 2}
NoResponse == [status |-> 0]

\* string | null
CodeNull == [isNull |-> TRUE, text |-> <<>>]
CodeText(t) == [isNull |-> FALSE, text |-> t]

\* processMeetingWithCode is not under way
MeetingIdle ==
  /\ meetingId = Absent
  /\ meetings = << >>
  /\ before = << >>
  /\ mpc = "idle"
  /\ mcode = CodeNull
  /\ mexec = NoResult
  /\ merr = <<>>
  /\ mret = NoResult

\* no pair of invocations under way
PairIdle ==
  /\ scopeOf = [i \in Invocations |-> 0]
  /\ globals = << >>
  /\ buffers = [i \in Invocations |-> <<>>]
  /\ ppc = [i \in Invocations |-> "idle"]
  /\ reads = [i \in Invocations |-> {}]
  /\ returned = [i \in Invocations |-> <<>>]
  /\ isolate = "alive"

\* no request under way
RouteIdle ==
  /\ body = [code |-> Absent, projectId |-> Absent, meetingId |-> Absent]
  /\ rpc = "responded"
  /\ invoked = 0
  /\ execResult = NoResult
  /\ response = NoResponse

\* the locals of execute at its entry
EngineStart ==
  /\ pc = "Compiling"
  /\ prog = "idle"
  /\ awaitOn = 0
  /\ output = <<>>
  /\ logged = <<>>
  /\ thrown = NoThrow
  /\ projectId = context.projectId
  /\ executionCompleted = FALSE
  /\ executionError = <<>>
  /\ waited = 0
  /\ polls = 0
  /\ elapsed = 0
  /\ calls = <<>>
  /\ risks = <<>>
  /\ storyUpdates = <<>>
  /\ result = NoResult
  /\ observed = {}
  /\ escaped = {}
  /\ received = Pending
  /\ live = FALSE
  /\ steps = 0

Init ==
  /\ executor \in {"vm", "ivm"}
  /\ codeValid \in BOOLEAN
  /\ context \in Contexts
  /\ stories = InitStories
  /\ EngineStart
  /\ PairIdle
  /\ RouteIdle
  /\ MeetingIdle

\* ------------------------------------------------------ result translation
\* the success return of execute
SuccessResult(out, t) == [success |-> TRUE, output |-> out, executionTime |-> t]
\* a catch block that returns no error field
FailureResult_NoError(out, msg, t) ==
  [success |-> FALSE, output |-> out, executionTime |-> t]

\* the catch block's return of execute
FailureResult(out, msg, t) ==
  [success |-> FALSE, output |-> out, error |-> msg, executionTime |-> t]

\* error instanceof Error ? error.message : 'Unknown error'
ErrorMessage(v) ==
  IF v.kind = "Error" /\ v.realm = "host" THEN v.msg ELSE <<"Unknown error">>

\* vm: output.join('\n')
VmOutput(out) == Join(out, <<NL>>)

\* ivm: output.trim() on the success path
IvmOutput(out) == Trim(out)

\* ivm: the catch block returns output: ''
IvmFailureOutput(out) == <<>>

Returned(r) ==
  /\ pc' = "Returned"
  /\ result' = r

\* the catch block of execute: both executors return success false and the message;
\* vm keeps the output collected so far, ivm returns output: ''
Catch(v, t) ==
  IF executor = "vm"
  THEN FailureResult(VmOutput(output), ErrorMessage(v), t)
  ELSE FailureResult(IvmFailureOutput(output), ErrorMessage(v), t)

\* --------------------------------------------------- capability call choices
CallOf(op, p, key, id, data) ==
  [op |-> op, p |-> p, key |-> key, id |-> id, data |-> data]

\* the calls a program can make: every operation of the surface, each with one
\* argument list (a project, story or meeting that is the caller's own under
\* one context and another project's under the other), and one call that the
\* database refuses (a risk without a title)
CallChoices ==
  { CallOf("stories.find", "P1", Absent, Absent, NoData),
    CallOf("stories.findAll", "P2", Absent, Absent, NoData),
    CallOf("stories.findByKey", "P2", "K3", Absent, NoData),
    CallOf("stories.update", Absent, Absent, "S3", [NoData EXCEPT !.status = "done"]),
    CallOf("meetings.get", Absent, Absent, "M2", NoData),
    CallOf("risks.create", Absent, Absent, Absent,
           [NoData EXCEPT !.title = "r", !.description = "d", !.project_id = "P2"]),
    CallOf("risks.create", Absent, Absent, Absent, [NoData EXCEPT !.description = "d"]),
    CallOf("storyUpdates.create", Absent, Absent, Absent,
           [NoData EXCEPT !.storyId = "S1", !.fieldChanged = "status",
                          !.oldValue = "a", !.newValue = "b"]) }

\* the host half of a capability call, run against the store as it is now
HostOp(c) ==
  CASE c.op = "stories.find" ->
         Fulfil(RowsVal(stories_find(stories, c.p)), stories, risks, storyUpdates)
    [] c.op = "stories.findAll" ->
         Fulfil(RowsVal(stories_findAll(stories, c.p)), stories, risks, storyUpdates)
    [] c.op = "stories.findByKey" ->
         Fulfil(stories_findByKey(stories, c.key, c.p), stories, risks, storyUpdates)
    [] c.op = "stories.update" ->
         IF executor = "vm"
         THEN stories_update(stories, risks, storyUpdates, c.id, c.data)
         ELSE stories_update_ivm(stories, risks, storyUpdates, c.id, c.data)
    [] c.op = "meetings.get" ->
         Fulfil(meetings_get(c.id), stories, risks, storyUpdates)
    [] c.op = "risks.create" ->
         IF executor = "vm"
         THEN risks_create(stories, risks, storyUpdates, context, c.data)
         ELSE risks_create_ivm(stories, risks, storyUpdates, context, c.data)
    [] c.op = "storyUpdates.create" ->
         IF executor = "vm"
         THEN storyUpdates_create(stories, risks, storyUpdates, context, c.data)
         ELSE storyUpdates_create_ivm(stories, risks, storyUpdates, context, c.data)

Settled(o) ==
  IF o.ok THEN [ok |-> TRUE, val |-> o.val, err |-> <<>>]
  ELSE [ok |-> FALSE, val |-> Undefined, err |-> o.err]

\* a bridge with one shared slot: every promise settles with what the latest call holds
Delivered_Latest(cs, c) == cs[Len(cs)].res

\* what the program's promise for call number c settles with.  vm: the async
\* function's own promise.  ivm: the wrapper awaits <ref>.apply(...) and then
\* JSON.parse(result), which throws on undefined
Delivered(cs, c) ==
  IF executor = "ivm" /\ cs[c].res.ok /\ cs[c].res.val.kind = "undefined"
  THEN [ok |-> FALSE, val |-> Undefined, err |-> <<"SyntaxError: undefined is not valid JSON">>]
  ELSE cs[c].res

\* a row or an array of rows (not null, not undefined)
IsObject(v) == v.kind \in {"row", "rows"}

\* how a capability's return value reaches the program.  vm: the async function
\* returns result.rows / result.rows[0], the host's own objects.  ivm: the host
\* function returns ExternalCopy(JSON.stringify(...)).copyInto() and the wrapper
\* rebuilds the value with JSON.parse
ReturnCrossing == IF executor = "vm" THEN "reference" ELSE "copy"

\* the projects the rows of a delivered value belong to
ProjectsOf(v) ==
  CASE v.kind = "rows" -> {v.rows[i].project_id : i \in 1..Len(v.rows)}
    [] v.kind = "row" ->
         IF "project_id" \in DOMAIN v.row THEN {v.row.project_id}
         ELSE IF v.row.story_id \in DOMAIN stories THEN {stories[v.row.story_id].project_id}
         ELSE {}
    [] OTHER -> {}

\* -------------------------------------------------------------- the host
\* what one invocation never changes: its executor, the program text, the
\* caller's context, and the state of other invocations and of the route
cfg == <<executor, codeValid, context, pair, route, meeting>>
store == <<stories, risks, storyUpdates>>
flags == <<executionCompleted, executionError>>
clock == <<waited, polls, elapsed>>
ghosts == <<logged, observed, escaped, received, live>>

\* a program step that puts execute back into its wait whenever it happens
LeaveSync_Always == pc' = "Waiting"

\* script.runInContext / script.run return when the body first suspends, ends or throws
LeaveSync == pc' = IF pc = "Running" THEN "Waiting" ELSE pc

\* new vm.Script(wrappedCode) / isolate.compileScript(wrappedCode), then the run starts
Compile ==
  /\ pc = "Compiling"
  /\ IF codeValid
     THEN /\ pc' = "Running"
          /\ prog' = "running"
          /\ UNCHANGED result
     ELSE /\ Returned(Catch(ErrorVal("host", <<"SyntaxError">>), elapsed))
          /\ UNCHANGED prog
  /\ UNCHANGED <<cfg, awaitOn, output, thrown, projectId, flags, clock, calls, store,
                 ghosts, steps>>

\* the script-level timeout ends a synchronous run that does not return
ScriptTimeout ==
  /\ pc = "Running"
  /\ prog = "spinning"
  /\ prog' = "dead"
  /\ elapsed' = scriptTimeout
  /\ Returned(Catch(ErrorVal("host", <<"Script execution timed out">>), elapsed'))
  /\ UNCHANGED <<cfg, awaitOn, output, thrown, projectId, flags, waited, polls, calls,
                 store, ghosts, steps>>

\* vm: await promise, then the success return
VmReturn ==
  /\ executor = "vm"
  /\ pc = "Waiting"
  /\ prog = "finished"
  /\ Returned(SuccessResult(VmOutput(output), elapsed))
  /\ UNCHANGED <<cfg, prog, awaitOn, output, thrown, projectId, flags, clock, calls,
                 store, ghosts, steps>>

\* vm: await promise rejects, the catch block returns
VmCatch ==
  /\ executor = "vm"
  /\ pc = "Waiting"
  /\ prog = "threw"
  /\ Returned(Catch(thrown, elapsed))
  /\ UNCHANGED <<cfg, prog, awaitOn, output, thrown, projectId, flags, clock, calls,
                 store, ghosts, steps>>

\* a wait loop that gives up after one interval
WaitCondition_OneTick == ~executionCompleted /\ waited < checkInterval

\* ivm: while (!executionCompleted && waited < maxWait)
WaitCondition == ~executionCompleted /\ waited < maxWait

\* a loop that runs one iteration too many (waited <= maxWait)
Remaining_Extra == (maxWait - waited) \div checkInterval + 1

\* the iterations the wait loop still has before waited reaches maxWait
Remaining == (maxWait - waited) \div checkInterval

\* ivm: k iterations of the wait loop in a row (k sleeps of checkInterval) with
\* nothing else happening in between; the model takes single iterations and the
\* run to the end of the budget
IvmWait(k) ==
  /\ executor = "ivm"
  /\ pc = "Waiting"
  /\ WaitCondition
  /\ k \in 1..Remaining
  /\ k < Remaining => polls < MaxPolls
  /\ waited' = waited + k * checkInterval
  /\ elapsed' = elapsed + k * checkInterval
  /\ polls' = IF k < Remaining THEN polls + 1 ELSE polls
  /\ UNCHANGED <<cfg, pc, prog, awaitOn, output, thrown, projectId, flags, calls,
                 store, result, ghosts, steps>>

\* ivm: after the loop: timeout, error or success
IvmWaitExit ==
  /\ executor = "ivm"
  /\ pc = "Waiting"
  /\ ~WaitCondition
  /\ Returned(IF ~executionCompleted
              THEN Catch(ErrorVal("host", <<"Execution timeout">>), elapsed)
              ELSE IF executionError # <<>>
              THEN Catch(ErrorVal("host", executionError), elapsed)
              ELSE SuccessResult(IvmOutput(output), elapsed))
  /\ UNCHANGED <<cfg, prog, awaitOn, output, thrown, projectId, flags, clock, calls,
                 store, ghosts, steps>>

\* vm: a body that loops after its first await holds the host's only thread
HostBlocked == executor = "vm" /\ prog = "spinning"

\* the database answers call number c: its effect is applied and its promise settles
HostComplete(c) ==
  /\ c \in 1..Len(calls)
  /\ calls[c].st = "inflight"
  /\ ~HostBlocked
  /\ LET o == HostOp(calls[c])
     IN /\ stories' = o.stories
        /\ risks' = o.risks
        /\ storyUpdates' = o.storyUpdates
        /\ calls' = [calls EXCEPT ![c] = [Spent EXCEPT !.op = calls[c].op, !.st = "settled",
                                                      !.res = Settled(o),
                                                      !.taken = calls[c].taken]]
  /\ UNCHANGED <<cfg, pc, prog, awaitOn, output, thrown, projectId, flags, clock,
                 result, ghosts, steps>>

\* the database never answers call number c
HostStall(c) ==
  /\ c \in 1..Len(calls)
  /\ calls[c].st = "inflight"
  /\ calls' = [calls EXCEPT ![c].st = "stalled"]
  /\ UNCHANGED <<cfg, pc, prog, awaitOn, output, thrown, projectId, flags, clock,
                 store, result, ghosts, steps>>

\* ------------------------------------------------------------ the program
\* vm: the properties of the sandbox object, with the realm their value belongs
\* to ("none": bound to undefined).  ivm: the globals set on the jail and the
\* constants the wrapper declares, all living in the isolate
Bindings ==
  IF executor = "vm"
  THEN [projectId |-> "primitive", meetingId |-> "primitive", console |-> "host",
        stories |-> "host", meetings |-> "host", risks |-> "host",
        storyUpdates |-> "host", setTimeout |-> "none", setInterval |-> "none",
        require |-> "none", process |-> "none", global |-> "none"]
  ELSE [projectId |-> "primitive", meetingId |-> "primitive", console |-> "isolate",
        stories |-> "isolate", meetings |-> "isolate", risks |-> "isolate",
        storyUpdates |-> "isolate", _log |-> "isolate", _done |-> "isolate",
        _error |-> "isolate", _stories_find |-> "isolate",
        _stories_update |-> "isolate", _stories_findByKey |-> "isolate",
        _stories_findAll |-> "isolate", _meetings_get |-> "isolate",
        _risks_create |-> "isolate", _storyUpdates_create |-> "isolate"]

Forbidden == {"require", "setTimeout", "setInterval", "process", "global", "fs"}

\* the ways a program tries to get at a forbidden primitive: by its name, or
\* through <binding>.constructor.constructor('return process')()
ReachPaths ==
  {[via |-> "name", target |-> n] : n \in Forbidden}
  \cup {[via |-> "constructor", target |-> b] : b \in {"console", "stories", "projectId"}}

\* what the expression yields: a host primitive, or "none" (it throws)
Reached(path) ==
  IF path.via = "name"
  THEN "none"
  ELSE IF Bindings[path.target] = "host" THEN "process" ELSE "none"

\* a collector that puts the newest line first
ConsoleLogVm_Prepend(out, args) == <<LineOf(args)>> \o out

\* vm: args.map(a => String(a)).join(' ') pushed on the array
ConsoleLogVm(out, args) == Append(out, LineOf(args))

\* ivm: _log(args.join(' ')) does output += msg + '\n'
ConsoleLogIvm(out, args) == out \o LineOf(args) \o <<NL>>

\* a body that runs on while one of its awaits is pending
CanStep_WhileAwaiting == prog \in {"running", "awaiting"} /\ steps < MaxSteps

\* the body is at a statement (not suspended at an await, not ended)
CanStep == prog = "running" /\ steps < MaxSteps

ProgLog(args) ==
  /\ CanStep
  /\ Len(logged) < MaxLogs
  /\ output' = IF executor = "vm" THEN ConsoleLogVm(output, args)
               ELSE ConsoleLogIvm(output, args)
  /\ logged' = Append(logged, LineOf(args))
  /\ steps' = steps + 1
  /\ UNCHANGED <<cfg, pc, prog, awaitOn, thrown, projectId, flags, clock, calls, store,
                 result, observed, escaped, received, live>>

\* ivm wrapper: .catch((err) => { _error(err.message + '\n' + err.stack) })
IvmErrText(v) ==
  IF v.kind = "Error" THEN v.msg \o <<NL, "stack">> ELSE <<"undefined", NL, "undefined">>

\* the threw signal; reading .message of null throws inside the handler
ThrewSignal(v) ==
  IF executor = "ivm" /\ v.kind # "null"
  THEN /\ executionCompleted' = TRUE
       /\ executionError' = IvmErrText(v)
  ELSE UNCHANGED flags

\* ivm wrapper: .then(() => { _done() })
FinishedSignal ==
  IF executor = "ivm"
  THEN /\ executionCompleted' = TRUE
       /\ UNCHANGED executionError
  ELSE UNCHANGED flags

\* throw v, uncaught
ProgThrow(v) ==
  /\ prog = "running"
  /\ prog' = "threw"
  /\ thrown' = v
  /\ ThrewSignal(v)
  /\ LeaveSync
  /\ UNCHANGED <<cfg, awaitOn, output, projectId, clock, calls, store, result, ghosts,
                 steps>>

\* the body reaches its end
ProgFinish ==
  /\ prog = "running"
  /\ prog' = "finished"
  /\ FinishedSignal
  /\ LeaveSync
  /\ UNCHANGED <<cfg, awaitOn, output, thrown, projectId, clock, calls, store, result,
                 ghosts, steps>>

\* a capability call: the host operation starts and the program holds its
\* promise; with `await` in front the body suspends on it at once
ProgCall(ch, awaitIt) ==
  /\ CanStep
  /\ Len(calls) < MaxCalls
  /\ calls' = Append(calls, [op |-> ch.op, p |-> ch.p, key |-> ch.key, id |-> ch.id,
                             data |-> ch.data, st |-> "inflight", res |-> Pending,
                             taken |-> awaitIt])
  /\ steps' = steps + 1
  /\ IF awaitIt
     THEN /\ prog' = "awaiting"
          /\ awaitOn' = Len(calls) + 1
          /\ LeaveSync
     ELSE UNCHANGED <<pc, prog, awaitOn>>
  /\ UNCHANGED <<cfg, output, thrown, projectId, flags, clock, store, result, ghosts>>

\* await of the promise of an earlier call, number c
ProgAwait(c) ==
  /\ CanStep
  /\ c \in 1..Len(calls)
  /\ ~calls[c].taken
  /\ prog' = "awaiting"
  /\ awaitOn' = c
  /\ calls' = [calls EXCEPT ![c].taken = TRUE]
  /\ steps' = steps + 1
  /\ LeaveSync
  /\ UNCHANGED <<cfg, output, thrown, projectId, flags, clock, store, result, ghosts>>

\* the awaited promise has settled: the body resumes with the value, or the
\* rejection is thrown at the await (caught by the program or not)
ProgResume(caught) ==
  /\ prog = "awaiting"
  /\ calls[awaitOn].st = "settled"
  /\ LET d == Delivered(calls, awaitOn)
     IN /\ received' = d
        /\ IF d.ok
           THEN /\ prog' = "running"
                /\ observed' = observed \cup ProjectsOf(d.val)
                /\ live' = (live \/ (IsObject(d.val) /\ ReturnCrossing = "reference"))
                /\ UNCHANGED <<thrown, flags>>
           ELSE /\ UNCHANGED <<observed, live>>
                /\ IF caught
                   THEN /\ prog' = "running"
                        /\ UNCHANGED <<thrown, flags>>
                   ELSE /\ prog' = "threw"
                        /\ thrown' = ErrorVal(IF executor = "vm" THEN "host" ELSE "isolate", d.err)
                        /\ ThrewSignal(thrown')
  /\ awaitOn' = 0
  /\ calls' = [calls EXCEPT ![awaitOn] = Spent]
  /\ UNCHANGED <<cfg, pc, output, projectId, clock, store, result, logged, escaped,
                 steps>>

\* projectId = v
ProgAssign(v) ==
  /\ CanStep
  /\ v # projectId
  /\ projectId' = v
  /\ steps' = steps + 1
  /\ UNCHANGED <<cfg, pc, prog, awaitOn, output, thrown, flags, clock, calls, store,
                 result, ghosts>>

\* ivm: the program itself calls the injected _done() or _error(msg)
ProgSignal(msg) ==
  /\ CanStep
  /\ "_done" \in DOMAIN Bindings
  /\ executionCompleted' = TRUE
  /\ executionError' = IF msg = <<"_done">> THEN executionError ELSE msg
  /\ steps' = steps + 1
  /\ UNCHANGED <<cfg, pc, prog, awaitOn, output, thrown, projectId, clock, calls, store,
                 result, ghosts>>

\* the program evaluates an expression meant to get at a forbidden primitive
ProgReach(path) ==
  /\ CanStep
  /\ steps' = steps + 1
  /\ IF Reached(path) = "none"
     THEN /\ prog' = "threw"
          /\ thrown' = ErrorVal("sandbox", <<"TypeError">>)
          /\ ThrewSignal(thrown')
          /\ LeaveSync
          /\ UNCHANGED escaped
     ELSE /\ escaped' = escaped \cup {Reached(path)}
          /\ UNCHANGED <<pc, prog, thrown, flags>>
  /\ UNCHANGED <<cfg, awaitOn, output, projectId, clock, calls, store, result, logged,
                 observed, received, live>>

\* a statement that computes for BusyTime ms without suspending, in the
\* synchronous run that script.run / runInContext time (BusyTime < scriptTimeout)
ProgBusy ==
  /\ CanStep
  /\ pc = "Running"
  /\ elapsed + BusyTime < scriptTimeout
  /\ elapsed' = elapsed + BusyTime
  /\ steps' = steps + 1
  /\ UNCHANGED <<cfg, pc, prog, awaitOn, output, thrown, projectId, flags, waited, polls,
                 calls, store, result, ghosts>>

\* while (true) {}
ProgSpin ==
  /\ prog = "running"
  /\ prog' = "spinning"
  /\ UNCHANGED <<cfg, pc, awaitOn, output, thrown, projectId, flags, clock, calls, store,
                 result, ghosts, steps>>

Next ==
  \/ Compile
  \/ ScriptTimeout
  \/ VmReturn
  \/ VmCatch
  \/ \E k \in {1, Remaining} : IvmWait(k)
  \/ IvmWaitExit
  \/ \E c \in 1..MaxCalls : HostComplete(c)
  \/ \E c \in 1..MaxCalls : HostStall(c)
  \/ \E args \in LogArgs : ProgLog(args)
  \/ \E v \in Throwables : ProgThrow(v)
  \/ ProgFinish
  \/ \E ch \in CallChoices, awaitIt \in BOOLEAN : ProgCall(ch, awaitIt)
  \/ \E c \in 1..MaxCalls : ProgAwait(c)
  \/ \E caught \in BOOLEAN : ProgResume(caught)
  \/ \E v \in Projects : ProgAssign(v)
  \/ \E msg \in {<<"_done">>, <<>>, <<"x">>} : ProgSignal(msg)
  \/ \E path \in ReachPaths : ProgReach(path)
  \/ ProgBusy
  \/ ProgSpin

Spec == Init /\ [][Next]_vars

\* ------------------------------------------- the capability surface alone
\* a program that does nothing but call capabilities and await them, with
\* every operation called on arguments that hit and that miss, against stores
\* whose stories are in any of these statuses
CapStatuses == {"draft", "in_progress", "done"}

CapStores ==
  { [i \in DOMAIN InitStories |-> [InitStories[i] EXCEPT !.status = f[i]]] :
      f \in [DOMAIN InitStories -> CapStatuses] }

CapChoices ==
  { CallOf("stories.find", p, Absent, Absent, NoData) : p \in Projects }
  \cup { CallOf("stories.findAll", p, Absent, Absent, NoData) : p \in Projects }
  \cup { CallOf("stories.findByKey", p, k, Absent, NoData) :
            p \in Projects, k \in {"K1", "K9"} }
  \cup { CallOf("stories.update", Absent, Absent, id, [NoData EXCEPT !.status = "done"]) :
            id \in {"S1", "S9"} }
  \cup { CallOf("stories.update", Absent, Absent, "S1", [NoData EXCEPT !.assignee = "bob"]),
         CallOf("stories.update", Absent, Absent, "S1", [NoData EXCEPT !.assigned_to = "bob"]),
         CallOf("stories.update", Absent, Absent, "S1",
                [NoData EXCEPT !.notes = "n", !.title = "x"]),
         CallOf("meetings.get", Absent, Absent, "M1", NoData),
         CallOf("meetings.get", Absent, Absent, "M9", NoData),
         CallOf("risks.create", Absent, Absent, Absent,
                [NoData EXCEPT !.title = "r", !.description = "d", !.project_id = "P2"]),
         CallOf("risks.create", Absent, Absent, Absent,
                [NoData EXCEPT !.title = "r", !.description = "d", !.project_id = "P2",
                               !.riskType = "dependency", !.severity = "low"]),
         CallOf("risks.create", Absent, Absent, Absent, [NoData EXCEPT !.description = "d"]),
         CallOf("storyUpdates.create", Absent, Absent, Absent,
                [NoData EXCEPT !.storyId = "S1", !.fieldChanged = "status",
                               !.meetingId = "M2"]),
         CallOf("storyUpdates.create", Absent, Absent, Absent,
                [NoData EXCEPT !.storyId = "S9", !.fieldChanged = "status"]) }

InitCap ==
  /\ executor \in {"vm", "ivm"}
  /\ codeValid = TRUE
  /\ context \in Contexts
  /\ stories \in CapStores
  /\ EngineStart
  /\ PairIdle
  /\ RouteIdle
  /\ MeetingIdle

NextCap ==
  \/ Compile
  \/ \E ch \in CapChoices : ProgCall(ch, TRUE)
  \/ \E c \in 1..MaxCalls : HostComplete(c)
  \/ \E caught \in BOOLEAN : ProgResume(caught)

SpecCap == InitCap /\ [][NextCap]_vars

\* ------------------------------------ two invocations on the shared executor
\* getExecutor() hands every caller the same CodeExecutor; execute keeps its
\* output in a local and creates its context anew, so two invocations, one
\* after the other or interleaved at their awaits, each have their own.  The
\* programs log lines (tagged here with the invocation that logged them),
\* assign the global `g` and read it.

\* a context that an earlier invocation created is used again
NewScope_Reused(gs) == 1

\* vm.createContext(sandbox) on a new sandbox object / isolate.createContext():
\* a scope no invocation has used
NewScope(gs) == Len(gs) + 1

InitPair ==
  /\ executor \in {"vm", "ivm"}
  /\ codeValid = TRUE
  /\ context \in Contexts
  /\ stories = InitStories
  /\ EngineStart
  /\ PairIdle
  /\ RouteIdle
  /\ MeetingIdle

\* the executor can run programs: vm needs nothing, ivm needs its isolate
Usable == executor = "vm" \/ isolate = "alive"

\* execute(code, context) is entered: its own output, its own context; on a
\* disposed isolate createContext() throws and the catch returns a failure
Begin(i) ==
  /\ ppc[i] = "idle"
  /\ IF Usable
     THEN /\ LET sc == NewScope(globals)
             IN /\ scopeOf' = [scopeOf EXCEPT ![i] = sc]
                /\ globals' = IF sc > Len(globals) THEN Append(globals, {}) ELSE globals
          /\ buffers' = [buffers EXCEPT ![i] = <<>>]
          /\ ppc' = [ppc EXCEPT ![i] = "running"]
     ELSE /\ ppc' = [ppc EXCEPT ![i] = "refused"]
          /\ UNCHANGED <<scopeOf, globals, buffers>>
  /\ UNCHANGED <<engine, route, meeting, reads, returned, isolate>>

\* console.log(...) in invocation i: the closure pushes on that invocation's output
PairLog(i) ==
  /\ ppc[i] = "running" /\ Usable
  /\ Len(buffers[i]) < MaxLogs
  /\ buffers' = [buffers EXCEPT ![i] = Append(@, [by |-> i, n |-> Len(@) + 1])]
  /\ UNCHANGED <<engine, route, meeting, scopeOf, globals, ppc, reads, returned, isolate>>

\* g = <value> in invocation i: a property of its context's global object
PairAssign(i) ==
  /\ ppc[i] = "running" /\ Usable
  /\ globals[scopeOf[i]] # {i}
  /\ globals' = [globals EXCEPT ![scopeOf[i]] = {i}]
  /\ UNCHANGED <<engine, route, meeting, scopeOf, buffers, ppc, reads, returned, isolate>>

\* typeof g / a read of g in invocation i
PairRead(i) ==
  /\ ppc[i] = "running" /\ Usable
  /\ reads' = [reads EXCEPT ![i] = @ \cup {globals[scopeOf[i]]}]
  /\ UNCHANGED <<engine, route, meeting, scopeOf, globals, buffers, ppc, returned, isolate>>

\* execute returns its own output
PairReturn(i) ==
  /\ ppc[i] = "running"
  /\ ppc' = [ppc EXCEPT ![i] = "returned"]
  /\ returned' = [returned EXCEPT ![i] = buffers[i]]
  /\ UNCHANGED <<engine, route, meeting, scopeOf, globals, buffers, reads, isolate>>

\* dispose(): the vm executor has nothing to clean up; the ivm executor
\* disposes its isolate, and getExecutor() keeps handing out the same instance
Dispose ==
  /\ isolate = "alive"
  /\ isolate' = IF executor = "ivm" THEN "disposed" ELSE isolate
  /\ UNCHANGED <<engine, route, meeting, scopeOf, globals, buffers, ppc, reads, returned>>

\* the program of invocation i exceeds the isolate's memoryLimit: the isolate
\* is disposed and the invocation fails with no output
PairExhaust(i) ==
  /\ executor = "ivm" /\ isolate = "alive"
  /\ ppc[i] = "running"
  /\ isolate' = "disposed"
  /\ ppc' = [ppc EXCEPT ![i] = "failed"]
  /\ returned' = [returned EXCEPT ![i] = <<>>]
  /\ UNCHANGED <<engine, route, meeting, scopeOf, globals, buffers, reads>>

\* invocation i runs on an isolate that was disposed under it: its program
\* is terminated and the catch returns a failure with no output
PairAbort(i) ==
  /\ ~Usable
  /\ ppc[i] = "running"
  /\ ppc' = [ppc EXCEPT ![i] = "failed"]
  /\ returned' = [returned EXCEPT ![i] = <<>>]
  /\ UNCHANGED <<engine, route, meeting, scopeOf, globals, buffers, reads, isolate>>

NextPair ==
  \/ \E i \in Invocations : Begin(i)
  \/ \E i \in Invocations : PairLog(i)
  \/ \E i \in Invocations : PairAssign(i)
  \/ \E i \in Invocations : PairRead(i)
  \/ \E i \in Invocations : PairReturn(i)
  \/ Dispose
  \/ \E i \in Invocations : PairExhaust(i)
  \/ \E i \in Invocations : PairAbort(i)

SpecPair == InitPair /\ [][NextPair]_vars

\* ------------------------------------------------ POST /api/code/execute
\* req.body as the JSON body parser leaves it: fields absent, empty or given
Bodies ==
  [code : {Absent, "", "c1", "c2"}, projectId : {Absent, "", "P1", "P2"},
   meetingId : {Absent, "M1"}]

\* the ExecutionResults execute can resolve with
RouteResults ==
  { SuccessResult(out, t) : out \in {<<>>, <<"a">>}, t \in {0, maxWait} }
  \cup { FailureResult(<<>>, msg, maxWait) :
           msg \in { <<"Unknown error">>, <<"Execution timeout">> } }

\* a guard that looks at code only
MissingFields_CodeOnly(b) == ~Truthy(b.code)

\* if (!code || !projectId)
MissingFields(b) == ~Truthy(b.code) \/ ~Truthy(b.projectId)

InitRoute ==
  /\ executor = "vm"
  /\ codeValid = TRUE
  /\ context \in Contexts
  /\ stories = InitStories
  /\ EngineStart
  /\ PairIdle
  /\ MeetingIdle
  /\ body \in Bodies
  /\ rpc = "received"
  /\ invoked = 0
  /\ execResult = NoResult
  /\ response = NoResponse

\* return res.status(400).json({ success: false, error: 'Missing required fields...' })
RouteReject ==
  /\ rpc = "received"
  /\ MissingFields(body)
  /\ response' = [status |-> 400,
                  body |-> [success |-> FALSE,
                            error |-> <<"Missing required fields: code, projectId">>]]
  /\ rpc' = "responded"
  /\ UNCHANGED <<engine, pair, meeting, body, invoked, execResult>>

\* const result = await getExecutor().execute(code, { projectId, meetingId })
RouteExecute ==
  /\ rpc = "received"
  /\ ~MissingFields(body)
  /\ invoked' = invoked + 1
  /\ rpc' = "executing"
  /\ UNCHANGED <<engine, pair, meeting, body, execResult, response>>

\* execute resolves
RouteAwait(r) ==
  /\ rpc = "executing"
  /\ execResult' = r
  /\ rpc' = "executed"
  /\ UNCHANGED <<engine, pair, meeting, body, invoked, response>>

\* res.json(result)
RouteRespond ==
  /\ rpc = "executed"
  /\ response' = [status |-> 200, body |-> execResult]
  /\ rpc' = "responded"
  /\ UNCHANGED <<engine, pair, meeting, body, invoked, execResult>>

NextRoute ==
  \/ RouteReject
  \/ RouteExecute
  \/ \E r \in RouteResults : RouteAwait(r)
  \/ RouteRespond

SpecRoute == InitRoute /\ [][NextRoute]_vars

\* ------------------------------------------------ processMeetingWithCode
\* The meeting processor fetches the meeting, asks the language model for a
\* program, runs it on getExecutor() and, when it succeeded, marks the meeting
\* processed.  The whole body is one try block whose catch returns a failure.

\* JSON.stringify(analysisData): the analysis kept in key_decisions
Analysis(out, code) == [summary |-> out, code_generated |-> code]
\* key_decisions IS NULL
NoDecisions == [none |-> TRUE]

\* rows of table meetings
MeetingRows ==
  [project_id : {"P1"}, transcript_text : {Absent, "", "t"},
   transcript_processed : BOOLEAN,
   key_decisions : {NoDecisions, Analysis(<<"o">>, <<"o">>)}]

\* the model's reply: whether it holds a fenced code block and the block's
\* body, whether its text holds 'await stories.' or 'await meetings.', and
\* the text itself
Responses ==
  { [match |-> m, block |-> b, bare |-> r, text |-> <<SP, "t", NL>>] :
      m \in BOOLEAN, b \in {<<>>, <<SP, NL>>, <<"c", NL>>}, r \in BOOLEAN }

\* extractCodeBlock(text)
extractCodeBlock(t) ==
  IF t.match /\ t.block # <<>> THEN CodeText(Trim(t.block))
  ELSE IF t.bare THEN CodeText(Trim(t.text))
  ELSE CodeNull

\* !code
NoCode(c) == c.isNull \/ c.text = <<>>

\* a guard that lets every execution through
ExecutionFailed_Never(r) == FALSE

\* if (!executionResult.success)
ExecutionFailed(r) == ~r.success

\* throw new Error(msg) inside the try block
MeetingThrow(msg) ==
  /\ merr' = msg
  /\ mpc' = "caught"

InitMeeting ==
  /\ executor = "vm"
  /\ codeValid = TRUE
  /\ context \in Contexts
  /\ stories = InitStories
  /\ EngineStart
  /\ PairIdle
  /\ RouteIdle
  /\ meetingId \in {"M1", "M9"}
  /\ meetings \in [{"M1"} -> MeetingRows]
  /\ before = meetings
  /\ mpc = "called"
  /\ mcode = CodeNull
  /\ mexec = NoResult
  /\ merr = <<>>
  /\ mret = NoResult

\* SELECT * FROM meetings WHERE id = $1, and the two guards on its result
MeetingFetch ==
  /\ mpc = "called"
  /\ IF meetingId \notin DOMAIN meetings
     THEN MeetingThrow(<<"Meeting not found">>)
     ELSE IF ~Truthy(meetings[meetingId].transcript_text)
     THEN MeetingThrow(<<"Meeting has no transcript">>)
     ELSE mpc' = "fetched" /\ UNCHANGED merr
  /\ UNCHANGED <<engine, pair, route, meetingId, meetings, before, mcode, mexec, mret>>

\* anthropic.messages.create resolves with text t; code = extractCodeBlock(t)
MeetingGenerate(t) ==
  /\ mpc = "fetched"
  /\ mcode' = extractCodeBlock(t)
  /\ IF NoCode(mcode')
     THEN MeetingThrow(<<"No code block found in Claude response">>)
     ELSE mpc' = "generated" /\ UNCHANGED merr
  /\ UNCHANGED <<engine, pair, route, meetingId, meetings, before, mexec, mret>>

\* a database query or the model's API rejects: the await throws
MeetingAwaitFails ==
  /\ mpc \in {"called", "fetched"}
  /\ MeetingThrow(<<"request failed">>)
  /\ UNCHANGED <<engine, pair, route, meetingId, meetings, before, mcode, mexec, mret>>

\* executionResult = await executor.execute(code, {projectId, meetingId})
MeetingExecute(r) ==
  /\ mpc = "generated"
  /\ mexec' = r
  /\ mpc' = "executed"
  /\ UNCHANGED <<engine, pair, route, meetingId, meetings, before, mcode, merr, mret>>

\* if (!executionResult.success) throw; UPDATE meetings SET
\* transcript_processed = true, key_decisions = $2 WHERE id = $1
MeetingMark ==
  /\ mpc = "executed"
  /\ IF ExecutionFailed(mexec)
     THEN /\ MeetingThrow(<<"Code execution failed: ">> \o mexec.error)
          /\ UNCHANGED meetings
     ELSE /\ meetings' = [meetings EXCEPT ![meetingId] =
                            [@ EXCEPT !.transcript_processed = TRUE,
                                      !.key_decisions =
                                         Analysis(mexec.output, mcode.text)]]
          /\ mpc' = "marked"
          /\ UNCHANGED merr
  /\ UNCHANGED <<engine, pair, route, meetingId, before, mcode, mexec, mret>>

\* the UPDATE is refused by the database: the await throws
MeetingMarkFails ==
  /\ mpc = "executed"
  /\ ~ExecutionFailed(mexec)
  /\ MeetingThrow(<<"request failed">>)
  /\ UNCHANGED <<engine, pair, route, meetingId, meetings, before, mcode, mexec, mret>>

\* return { success: true, summary, codeGenerated, executionTime }
MeetingReturn ==
  /\ mpc = "marked"
  /\ mret' = [success |-> TRUE, summary |-> mexec.output, codeGenerated |-> mcode.text]
  /\ mpc' = "returned"
  /\ UNCHANGED <<engine, pair, route, meetingId, meetings, before, mcode, mexec, merr>>

\* catch (error) { return { success: false, summary: '', error: error.message } }
MeetingCatch ==
  /\ mpc = "caught"
  /\ mret' = [success |-> FALSE, summary |-> <<>>, error |-> merr]
  /\ mpc' = "returned"
  /\ UNCHANGED <<engine, pair, route, meetingId, meetings, before, mcode, mexec, merr>>

NextMeeting ==
  \/ MeetingFetch
  \/ \E t \in Responses : MeetingGenerate(t)
  \/ MeetingAwaitFails
  \/ \E r \in RouteResults : MeetingExecute(r)
  \/ MeetingMark
  \/ MeetingMarkFails
  \/ MeetingReturn
  \/ MeetingCatch

SpecMeeting == InitMeeting /\ [][NextMeeting]_vars

\* ------------------------------------------------------------------ claims
\* execute has returned a record carrying success, output and executionTime
Complete(r) == {"success", "output", "executionTime"} \subseteq DOMAIN r

HasError(r) == "error" \in DOMAIN r

\* the message tokens msg occur in the error text e
Contains(e, msg) ==
  \E i \in 1..Len(e) : i + Len(msg) - 1 <= Len(e) /\ SubSeq(e, i, i + Len(msg) - 1) = msg

\* the program has executed console.log statements only
OnlyLogged == steps = Len(logged) /\ calls = <<>>

\* C1: for every program, execute returns one complete ExecutionResult: once the
\* invocation can take no further step, a record with success, output and
\* executionTime has been returned
C1_AlwaysReturnsResult == (~ENABLED Next) => Complete(result)

\* C2: a program that only calls console.log and ends gets success = true, no
\* error, and output equal to the logged lines joined by a newline
C2_LogOnlyOutput ==
  (Complete(result) /\ OnlyLogged /\ prog = "finished")
    => (result.success /\ ~HasError(result) /\ result.output = Join(logged, <<NL>>))

\* C3: a program that logs L1..Ln and then throws an Error with message M gets
\* success = false, an error containing M and output exactly L1..Ln
C3_ThrowKeepsMessageAndOutput ==
  (Complete(result) /\ OnlyLogged /\ prog = "threw" /\ thrown.kind = "Error")
    => (/\ ~result.success
        /\ HasError(result) /\ Contains(result.error, thrown.msg)
        /\ result.output = Join(logged, <<NL>>))

\* C4: run with context {projectId: P}, no capability call returns a row of
\* another project or changes (or adds) a row of another project
C4_ProjectScoped ==
  /\ observed \subseteq {context.projectId}
  /\ \A i \in DOMAIN stories :
       stories[i].project_id # context.projectId => stories[i] = InitStories[i]
  /\ \A i \in 1..Len(risks) : risks[i].project_id = context.projectId
  /\ \A i \in 1..Len(storyUpdates) :
       stories[storyUpdates[i].story_id].project_id = context.projectId

\* C5: when the program awaits a capability call whose host operation never
\* completes, execute still returns, with success = false and a timeout error
C5_StalledCallTimesOut ==
  (prog = "awaiting" /\ calls[awaitOn].st = "stalled" /\ ~ENABLED Next)
    => (Complete(result) /\ ~result.success /\ HasError(result)
        /\ Contains(result.error, <<"Execution timeout">>))

\* the value has the type the operation declares
Fits(op, v) ==
  CASE op \in {"stories.find", "stories.findAll"} -> v.kind = "rows"
    [] op \in {"stories.findByKey", "stories.update"} ->
         v.kind = "null" \/ (v.kind = "row" /\ "story_key" \in DOMAIN v.row)
    [] op = "meetings.get" ->
         v.kind = "row" /\ v.row.id \in MeetingIds
    [] op = "risks.create" ->
         v.kind = "row" /\ "risk_type" \in DOMAIN v.row
    [] op = "storyUpdates.create" ->
         v.kind = "row" /\ "field_changed" \in DOMAIN v.row
    [] OTHER -> FALSE

\* C6: with two capability calls in flight at once, the promise of each call
\* resolves with the result of its own host operation (the settlement recorded
\* for that call, of that operation's type), whichever operation completes first
C6_OwnResultPerCall ==
  [][ (/\ prog = "awaiting" /\ prog' # "awaiting"
       /\ calls[awaitOn].res.ok /\ calls[awaitOn].res.val.kind # "undefined")
      => (/\ received' = calls[awaitOn].res
          /\ Fits(calls[awaitOn].op, received'.val)) ]_vars

\* C6 happens: the second call was delivered its result while the first, issued
\* before it and not yet awaited, was still in flight
C6_Witness ==
  /\ Len(calls) = 2
  /\ calls[1].st = "inflight"
  /\ calls[2].st = "consumed"
  /\ received.ok

\* C7: no expression a program evaluates yields a host timer, module loader or
\* process object
C7_NoForbiddenPrimitive == escaped = {}

\* C8: success = true only when the program body has run to its end, with no
\* uncaught error and no timeout
C8_SuccessMeansCompleted ==
  (Complete(result) /\ result.success) => prog = "finished"

\* C9: in every returned ExecutionResult the error field is present exactly
\* when success is false
C9_ErrorIffFailure ==
  Complete(result) => (HasError(result) <=> ~result.success)

\* C9 happens: a failure was returned after the program threw
C9_Witness ==
  Complete(result) /\ ~result.success /\ prog = "threw" /\ HasError(result)

\* C10: a read of projectId inside the program yields the caller's value after
\* any statement, and context-bound operations use the caller's value
C10_ContextImmutable ==
  /\ projectId = context.projectId
  /\ \A i \in 1..Len(risks) : risks[i].project_id = context.projectId

\* C12: every value a capability returns reaches the program as a serialized
\* copy, so the program never holds a live reference to an object of the host
C12_SerializedCopies == ~live

\* C13: when an invocation of the isolated-vm executor fails after the program
\* logged lines, the returned output holds those lines (compared up to
\* surrounding whitespace)
C13_IvmPartialOutput ==
  (executor = "ivm" /\ Complete(result) /\ ~result.success /\ codeValid)
    => Trim(result.output) = Trim(Join(logged, <<NL>>))

\* the bindings the specification allows a program to see
Surface == {"projectId", "meetingId", "stories", "meetings", "risks", "storyUpdates",
            "console"}

\* C15: the globals a program can read or call are the context constants, the
\* capability objects and the logging primitive, and nothing else
C15_OnlySurfaceBindings ==
  \A b \in DOMAIN Bindings : Bindings[b] # "none" => b \in Surface

\* the invocation was reported as timed out by the wait loop
TimedOut(r) == Complete(r) /\ ~r.success /\ r.error = <<"Execution timeout">>

\* C16: when the isolated-vm executor reports a timeout, the time elapsed since
\* the invocation started is within the grace window of the 35000 ms budget
C16_TimeoutWithinGrace ==
  (executor = "ivm" /\ TimedOut(result)) => result.executionTime <= maxWait + Grace

\* the signals as the wait loop's exit reads them
FinishedSignalSeen == executionCompleted /\ executionError = <<>>
ThrewSignalSeen == executionCompleted /\ executionError # <<>>
\* the terminal states
Completed(r) == Complete(r) /\ r.success
CompileFailed(r) == Complete(r) /\ ~r.success /\ ~codeValid
ScriptTimedOut(r) ==
  Complete(r) /\ ~r.success /\ r.error = <<"Script execution timed out">>
Failed(r) == Complete(r) /\ ~r.success /\ ~TimedOut(r)

\* execute returns in this step
Returns == pc # "Returned" /\ pc' = "Returned"

C20_EveryThrowSignals ==
  (executor = "ivm" /\ prog = "threw") => ThrewSignalSeen

\* the host half of call number c completes in this step
Completes(c) == calls[c].st = "inflight" /\ calls'[c].st = "settled"

\* the call's id matches no row of its table
NoRow(a) ==
  \/ a.op = "stories.update" /\ a.id \notin DOMAIN stories
  \/ a.op = "meetings.get" /\ a.id \notin DOMAIN Meetings

\* C14: a capability call whose host operation fails, or whose id matches no
\* row (stories.update, meetings.get), rejects the program's promise
C14_FailureRejects ==
  [][ \A c \in 1..Len(calls) :
        (Completes(c) /\ (NoRow(calls[c]) \/ ~HostOp(calls[c]).ok))
          => ~Delivered(calls', c).ok ]_vars

Range(q) == {q[i] : i \in 1..Len(q)}
StoriesOf(p) == {stories[i] : i \in {j \in DOMAIN stories : stories[j].project_id = p}}

C21_WaitLoop ==
  [][ executor = "ivm" =>
        /\ scriptTimeout < maxWait
        /\ waited' >= waited /\ (waited' - waited) % checkInterval = 0
        /\ waited' <= maxWait
        /\ waited' # waited => ~executionCompleted
        /\ (Returns /\ TimedOut(result')) => (~executionCompleted /\ waited = maxWait)
        /\ (Returns /\ pc = "Waiting" /\ executionCompleted) => ~TimedOut(result')
    ]_vars

\* C21 happens: the signal came when the last interval had been slept, and the
\* invocation completed
C21_Witness ==
  executor = "ivm" /\ waited = maxWait /\ Completed(result) /\ prog = "finished"

\* C22: once execute has returned, its result never changes, whatever arrives
\* later; returning rolls back no write (and a host operation still in flight
\* goes on and is applied)
C22_ResultFinal ==
  [][ /\ pc = "Returned" => (pc' = "Returned" /\ result' = result)
      /\ Returns => UNCHANGED store
    ]_vars

\* C22 happens: a timeout was returned while the program was suspended on an
\* update, and the update has been applied to the store
C22_Witness ==
  /\ executor = "ivm" /\ TimedOut(result) /\ ~executionCompleted
  /\ prog = "awaiting" /\ calls[awaitOn].op = "stories.update"
  /\ calls[awaitOn].st = "settled"
  /\ stories["S3"].status = "done" /\ InitStories["S3"].status # "done"

\* the promise of call number c was rejected with no handler attached to it
UnhandledRejection(c) ==
  calls[c].st = "settled" /\ ~calls[c].res.ok /\ ~calls[c].taken

\* C23: in the vm executor no failure caused by the program is left as an
\* unhandled rejection in the host, a call it started without awaiting included
C23_NoUnhandledRejection ==
  executor = "vm" => \A c \in 1..Len(calls) : ~UnhandledRejection(c)

\* C24: when the program issues a capability call, every call it awaited
\* before has completed: its effect is applied and its result was delivered
C24_AwaitedBeforeNext ==
  [][ Len(calls') = Len(calls) + 1 =>
        \A c \in 1..Len(calls) : calls[c].taken => calls[c].st = "consumed" ]_vars

\* C24 happens: the program awaited an update of S3 and then a findAll, which
\* returned S3 as updated
C24_Witness ==
  /\ Len(calls) = 2 /\ calls[1].st = "consumed"
  /\ received.ok /\ received.val.kind = "rows"
  /\ \E k \in 1..Len(received.val.rows) :
       /\ received.val.rows[k].id = "S3"
       /\ received.val.rows[k].status = "done"
       /\ InitStories["S3"].status # "done"

\* C28: in the isolated-vm executor executionCompleted is set only after the
\* program body has settled
C28_SignalsOnlyFromWrapper ==
  (executor = "ivm" /\ executionCompleted) => prog \in {"finished", "threw"}

\* the text _log collects for these lines
Collected(ls) == IF ls = <<>> THEN <<>> ELSE Join(ls, <<NL>>) \o <<NL>>

\* C30: the output collected holds one line per console.log call, in the
\* order the calls executed, none dropped, duplicated or reordered
C30_LogOrder ==
  [][ /\ IF executor = "vm" THEN output = logged ELSE output = Collected(logged)
      /\ Len(logged') \in {Len(logged), Len(logged) + 1}
      /\ SubSeq(logged', 1, Len(logged)) = logged
      /\ Len(logged') = Len(logged) + 1 =>
           IF executor = "vm" THEN output' = Append(output, logged'[Len(logged')])
           ELSE output' = output \o logged'[Len(logged')] \o <<NL>>
    ]_vars

\* C30 happens: two different lines were logged, the second after an await
C30_Witness ==
  /\ Len(logged) = 2 /\ logged[1] # logged[2]
  /\ Len(calls) = 1 /\ calls[1].st = "consumed" /\ received.ok

\* C25: stories.update(id, changes) on an existing story returns the updated
\* story, leaves every other story and every column outside the allow-list as
\* it was, and gives status, the assignee column and notes the values supplied
\* (the assignee under the documented key `assignee`)
C25_UpdateAllowList ==
  [][ \A c \in 1..Len(calls) :
        (Completes(c) /\ calls[c].op = "stories.update" /\ calls[c].id \in DOMAIN stories) =>
          LET a == calls[c]
              d == Delivered(calls', c)
              old == stories[a.id]
              new == stories'[a.id]
          IN /\ d.ok /\ d.val = RowVal(new)
             /\ \A j \in DOMAIN stories \ {a.id} : stories'[j] = stories[j]
             /\ new.id = old.id /\ new.project_id = old.project_id
             /\ new.story_key = old.story_key /\ new.title = old.title
             /\ Truthy(a.data.status) => new.status = a.data.status
             /\ Truthy(a.data.assignee) => new.assigned_to = a.data.assignee
             /\ Truthy(a.data.notes) => new.notes = a.data.notes
    ]_vars

\* C26: a risk that risks.create inserts has the context's project, status
\* 'open', and riskType / severity as supplied or 'blocker' / 'high'; a story
\* update that storyUpdates.create inserts references the context's meeting
\* (none when the context has none), whatever the data argument holds
C26_CreatedFromContext ==
  [][ \A c \in 1..Len(calls) : Completes(c) =>
        LET a == calls[c]
        IN /\ Len(risks') > Len(risks) =>
                LET row == risks'[Len(risks')]
                IN /\ a.op = "risks.create" /\ Len(risks') = Len(risks) + 1
                   /\ row.project_id = context.projectId
                   /\ row.status = "open"
                   /\ row.risk_type = IF a.data.riskType = Absent THEN "blocker"
                                      ELSE a.data.riskType
                   /\ row.severity = IF a.data.severity = Absent THEN "high"
                                     ELSE a.data.severity
           /\ Len(storyUpdates') > Len(storyUpdates) =>
                LET row == storyUpdates'[Len(storyUpdates')]
                IN /\ a.op = "storyUpdates.create"
                   /\ Len(storyUpdates') = Len(storyUpdates) + 1
                   /\ row.source_reference = context.meetingId
    ]_vars

\* C26 happens: under context P1 a risk was created from data that names
\* another project and omits riskType and severity
C26_Witness ==
  /\ context.projectId = "P1" /\ Len(risks) = 1
  /\ risks[1].project_id = "P1"
  /\ risks[1].risk_type = "blocker" /\ risks[1].severity = "high"

\* C27: whatever happened on the shared executor before (an invocation that
\* failed, the isolate's memory limit exceeded, dispose() called), an
\* invocation that starts afterwards is run: it never fails before its
\* program has executed
C27_LaterInvocationRuns == \A i \in Invocations : ppc[i] # "refused"

\* C29: processMeetingWithCode always ends by returning a result; it returns
\* success only after execute succeeded, with the meeting marked processed;
\* when the meeting is missing, has no transcript, the reply has no code or
\* the execution failed it returns success = false with an error, and the
\* meeting's transcript_processed and key_decisions are as they were
C29_ProcessMeeting ==
  /\ (mpc \notin {"idle", "returned"}) => ENABLED NextMeeting
  /\ meetings # before => (mexec # NoResult /\ mexec.success)
  /\ mpc = "returned" =>
       /\ "success" \in DOMAIN mret
       /\ mret.success =>
            /\ mexec # NoResult /\ mexec.success
            /\ meetings[meetingId].transcript_processed
       /\ ~mret.success =>
            /\ "error" \in DOMAIN mret /\ mret.error # <<>>
            /\ meetings = before
       /\ (\/ meetingId \notin DOMAIN before
           \/ ~Truthy(before[meetingId].transcript_text)
           \/ NoCode(mcode)
           \/ (mexec # NoResult /\ ~mexec.success)) => ~mret.success

\* C29 happens: the generated program failed, the function returned the
\* failure and an unprocessed meeting is still unprocessed
C29_Witness ==
  /\ mpc = "returned" /\ ~mret.success
  /\ mexec # NoResult /\ ~mexec.success
  /\ ~before[meetingId].transcript_processed
  /\ ~meetings[meetingId].transcript_processed
  /\ meetings[meetingId].key_decisions = Analysis(<<"o">>, <<"o">>)

====
